---- MODULE Spec2Model ----
(***************************************************************************)
(* Model of the gefyra client bridge API (client/gefyra/api/bridge.py):    *)
(* bridge() as a state machine (container lookup, pod resolution,          *)
(* check_workloads, intent creation, the poll loop, the summary).          *)
(* Strings that the code takes apart or puts together (pod names, intent   *)
(* names, the error text) are sequences of one-character strings.          *)
(***************************************************************************)
EXTENDS Integers, Sequences, FiniteSets, TLC

\* ------------------------------------------------------------------ bounds
MaxPods == 2
MaxTimeout == 2
MaxTicks == 3
MaxDirs == 2
MaxStored == 3

\* ------------------------------------------------------------ string tools
Dash == "-"

S_web == <<"w", "e", "b">>
S_default == <<"d", "e", "f", "a", "u", "l", "t">>
S_to == <<"-", "t", "o", "-">>
S_dot == <<".">>
S_pod == <<"p", "o", "d">>
S_deployment == <<"d", "e", "p", "l", "o", "y", "m", "e", "n", "t">>
S_api == <<"a", "p", "i">>
S_db == <<"d", "b">>
S_abc == <<"a", "b", "c">>
S_comma == <<",", " ">>

Digits == <<"0", "1", "2", "3", "4", "5", "6", "7", "8", "9">>

\* str(n) of a non-negative integer, as in the f-string "{idx}"
RECURSIVE ToStr(_)
ToStr(n) ==
    IF n < 10 THEN <<Digits[n + 1]>>
    ELSE ToStr(n \div 10) \o <<Digits[(n % 10) + 1]>>

\* s.split(c): the segments of s between occurrences of the character c
RECURSIVE Split(_, _)
Split(s, c) ==
    IF s = <<>> THEN << <<>> >>
    ELSE LET rest == Split(Tail(s), c)
         IN IF Head(s) = c
            THEN << <<>> >> \o rest
            ELSE << <<Head(s)>> \o Head(rest) >> \o Tail(rest)

\* sep.join(segs)
RECURSIVE Join(_, _)
Join(segs, sep) ==
    IF segs = <<>> THEN <<>>
    ELSE IF Len(segs) = 1 THEN segs[1]
    ELSE segs[1] \o sep \o Join(Tail(segs), sep)

\* segs[:-2]
DropLastTwo(segs) ==
    IF Len(segs) <= 2 THEN <<>> ELSE SubSeq(segs, 1, Len(segs) - 2)

\* segs[:-1]
DropLastOne(segs) ==
    IF Len(segs) <= 1 THEN <<>> ELSE SubSeq(segs, 1, Len(segs) - 1)

Range(s) == {s[i] : i \in 1..Len(s)}

\* ------------------------------------------------------- request constants
name == S_web
namespace == S_default
handle_probes == TRUE
\* ports = {8080: 80}, turned into ["8080:80"] by line 85
ports == << <<"8", "0", "8", "0", ":", "8", "0">> >>
LocalIP == "172.18.0.2"
ServiceAccountDir == "/var/run/secrets/kubernetes.io/serviceaccount"

\* ------------------------------------------------------------ environment
\* Pod names the cluster lookup can return: api-abc-<i>
PodName(i) == S_api \o <<Dash>> \o S_abc \o <<Dash>> \o ToStr(i)

\* a pod of the workload, with its containers
Pod(i, containers) == [pod |-> PodName(i), containers |-> containers]

\* The results the cluster lookup (get_pods_and_containers_for_*) can give:
\* a dict pod name -> container list, in insertion order, keys distinct.
WorkloadPods ==
    { [i \in 1..k |-> Pod(i, <<"api">>)] : k \in 0..MaxPods }
    \cup { [i \in 1..k |-> Pod(i, IF i = 1 THEN <<"api", "sidecar">> ELSE <<"sidecar">>)]
           : k \in 1..MaxPods }
    \cup { << [pod |-> S_db \o <<Dash>> \o S_abc \o <<Dash>> \o ToStr(1),
               containers |-> <<"api">>] >>,
            << [pod |-> S_api \o <<Dash>> \o ToStr(1), containers |-> <<"api">>] >> }

SinglePods ==
    { <<>>,
      << Pod(1, <<"api">>) >>,
      << [pod |-> S_api, containers |-> <<"api">>] >> }

LookupResults(wtype) == IF wtype = S_pod THEN SinglePods ELSE WorkloadPods

\* the directories a caller may ask to sync down
Dirs == {"/a", "/b"}

RECURSIVE DistinctSeqs(_, _)
DistinctSeqs(S, n) ==
    IF n = 0 THEN {<<>>}
    ELSE LET shorter == DistinctSeqs(S, n - 1)
         IN shorter \cup { Append(q, d) : q \in {r \in shorter : Len(r) = n - 1},
                                           d \in S }

NoDup(q) == \A i, j \in 1..Len(q) : i # j => q[i] # q[j]

\* the argument sync_down_dirs: None, or a list (possibly empty)
None == [given |-> FALSE, dirs |-> <<>>]
Given(q) == [given |-> TRUE, dirs |-> q]

SyncDownArgs == {None} \cup {Given(q) : q \in {r \in DistinctSeqs(Dirs, MaxDirs) : NoDup(r)}}

Requests ==
    [ workload_type : {S_deployment, S_pod},
      workload_name : {S_api, PodName(1)},
      container_name : {"api", "nginx"},
      sync_down_dirs : SyncDownArgs,
      timeout : 0..MaxTimeout ]

\* an intent that some other request left in the intent store
ForeignIntent ==
    [ uid |-> 1, name |-> S_db, targetPod |-> S_db \o <<Dash>> \o S_abc \o <<Dash>> \o ToStr(1),
      targetNamespace |-> namespace, targetContainer |-> "db",
      destinationIP |-> "172.18.0.9", portMappings |-> <<>>,
      syncDownDirectories |-> <<ServiceAccountDir>>, handleProbes |-> TRUE ]

\* ------------------------------------------------------------------ state
VARIABLES
    request,            \* the arguments of bridge()
    pc,                 \* position in bridge()
    container,          \* outcome of the container lookup
    pods_to_intercept,  \* resolved pods, in resolution order
    use_index,
    sync_down_dirs,     \* the local list after lines 119-124
    idx,                \* loop index of the creation loop
    store,              \* the intent store of the cluster
    create_calls,       \* calls of handle_create_interceptrequest so far
    ireqs,              \* intents created by this call
    jobs,               \* sync-down jobs added
    bridges,            \* uid -> converged
    waiting_time,
    kube_ireqs,         \* the last fetch
    progress,           \* progress signals emitted by the last fetch
    fetches,            \* number of fetches so far
    sleeps,             \* number of sleep(1) so far
    observed,           \* uids some fetch reported with established = true
    result,             \* return value
    error,              \* raised error
    summary,            \* summary lines
    op,                 \* the entry point called: bridge, unbridge or unbridge_all
    unbridge_name,      \* the argument name of unbridge()
    listed,             \* unbridge_all: the intents listed (its local ireqs)
    list_calls,         \* unbridge_all: calls of get_all_interceptrequests so far
    delete_calls        \* calls of handle_delete_interceptrequest so far, with outcome

vars == << request, pc, container, pods_to_intercept, use_index, sync_down_dirs,
           idx, store, create_calls, ireqs, jobs, bridges, waiting_time, kube_ireqs,
           progress, fetches, sleeps, observed, result, error, summary,
           op, unbridge_name, listed, list_calls, delete_calls >>

\* what only unbridge() and unbridge_all() touch
TeardownVars == << op, unbridge_name, listed, list_calls, delete_calls >>

NoError == [kind |-> "none", available |-> <<>>]

Init ==
    /\ request \in Requests
    /\ pc = "get_container"
    /\ container = "unknown"
    /\ pods_to_intercept = <<>>
    /\ use_index = FALSE
    /\ sync_down_dirs = <<>>
    /\ idx = 0
    /\ store = <<ForeignIntent>>
    /\ create_calls = 0
    /\ ireqs = <<>>
    /\ jobs = <<>>
    /\ bridges = <<>>
    /\ waiting_time = 0
    /\ kube_ireqs = <<>>
    /\ progress = <<>>
    /\ fetches = 0
    /\ sleeps = 0
    /\ observed = {}
    /\ result = "none"
    /\ error = NoError
    /\ summary = <<>>
    /\ op = "bridge"
    /\ unbridge_name = <<>>
    /\ listed = <<>>
    /\ list_calls = 0
    /\ delete_calls = <<>>

\* ------------------------------------------------------------ check_workloads
\* a variant of CleanName that strips one segment only: [:-1]
CleanNameOne(key) == Join(DropLastOne(Split(key, Dash)), <<Dash>>)

\* "-".join(key.split("-")[:-2])
CleanName(key) == Join(DropLastTwo(Split(key, Dash)), <<Dash>>)

\* line 43: one cleaned name per resolved pod, in resolution order
CleanedNames(pods) == [i \in 1..Len(pods) |-> CleanName(pods[i].pod)]

\* lines 50-52: all containers of all resolved pods
AllContainers(pods) == UNION {Range(pods[i].containers) : i \in 1..Len(pods)}

\* a variant of UseIndex that indexes from three pods on
UseIndexFromThree(pods) == Len(pods) > 2

\* lines 36-41
UseIndex(pods) == Len(pods) > 1

\* a variant of check_workloads without the container check of lines 50-53
check_workloads_no_container(pods, wtype, wname, cname) ==
    IF Len(pods) = 0
    THEN [error |-> [kind |-> "NoPodsFound", available |-> <<>>], use_index |-> FALSE]
    ELSE IF wtype # S_pod /\ wname \notin {CleanName(pods[i].pod) : i \in 1..Len(pods)}
    THEN [error |-> [kind |-> "WorkloadNotFound",
                     available |-> Join([i \in 1..Len(pods) |-> CleanName(pods[i].pod)],
                                        S_comma)],
          use_index |-> Len(pods) > 1]
    ELSE [error |-> [kind |-> "none", available |-> <<>>], use_index |-> Len(pods) > 1]

\* check_workloads: the error it raises (kind "none": it returns) and use_index
check_workloads(pods, wtype, wname, cname) ==
    IF Len(pods) = 0
    THEN [error |-> [kind |-> "NoPodsFound", available |-> <<>>], use_index |-> FALSE]
    ELSE IF wtype # S_pod /\ wname \notin Range(CleanedNames(pods))
    THEN [error |-> [kind |-> "WorkloadNotFound",
                     available |-> Join(CleanedNames(pods), S_comma)],
          use_index |-> UseIndex(pods)]
    ELSE IF cname \notin AllContainers(pods)
    THEN [error |-> [kind |-> "ContainerTargetNotFound", available |-> <<>>],
          use_index |-> UseIndex(pods)]
    ELSE [error |-> NoError, use_index |-> UseIndex(pods)]

\* ------------------------------------------------------------ intent builder
\* line 107-109
ireq_base_name(req) ==
    name \o S_to \o namespace \o S_dot \o req.workload_type \o S_dot \o req.workload_name

\* line 138
IreqName(base, i, indexed) == IF indexed THEN base \o <<Dash>> \o ToStr(i) ELSE base

\* a variant of SyncDownDirs that puts the service-account path last
SyncDownDirsLast(arg) ==
    IF arg.given /\ arg.dirs # <<>>
    THEN arg.dirs \o <<ServiceAccountDir>>
    ELSE <<ServiceAccountDir>>

\* lines 119-124
SyncDownDirs(arg) ==
    IF arg.given /\ arg.dirs # <<>>
    THEN <<ServiceAccountDir>> \o arg.dirs
    ELSE <<ServiceAccountDir>>

\* lines 136-146, with the identifier the store assigns on create
IreqBody(uid, req, i, pod, indexed, dirs) ==
    [ uid |-> uid,
      name |-> IreqName(ireq_base_name(req), i, indexed),
      destinationIP |-> LocalIP,
      targetPod |-> pod,
      targetNamespace |-> namespace,
      targetContainer |-> req.container_name,
      portMappings |-> ports,
      syncDownDirectories |-> dirs,
      handleProbes |-> handle_probes ]

\* lines 149-157: one job per sync-down directory
SyncdownJobs(ireq, pod, cname, dirs) ==
    [i \in 1..Len(dirs) |-> [ireq |-> ireq.name, container |-> name, pod |-> pod,
                             target |-> cname, dir |-> dirs[i]]]

\* ------------------------------------------------------------ bridge(), part 1
Frame1 == UNCHANGED TeardownVars /\ UNCHANGED << request, store, create_calls, ireqs, jobs, bridges, waiting_time, kube_ireqs,
                       progress, fetches, sleeps, observed, summary, idx >>

\* lines 79-83: the container lookup; NotFound returns False
GetContainer ==
    /\ pc = "get_container"
    /\ \E found \in {"absent", "unattached", "attached"} :
          /\ container' = found
          /\ IF found = "absent"
             THEN pc' = "returned" /\ result' = "False"
             ELSE pc' = "get_ip" /\ result' = result
    /\ UNCHANGED << pods_to_intercept, use_index, sync_down_dirs, error >>
    /\ Frame1

\* lines 85-96: the address in Gefyra's network; KeyError returns False
GetIp ==
    /\ pc = "get_ip"
    /\ IF container = "unattached"
       THEN pc' = "returned" /\ result' = "False"
       ELSE pc' = "resolve" /\ result' = result
    /\ UNCHANGED << container, pods_to_intercept, use_index, sync_down_dirs, error >>
    /\ Frame1

\* lines 98-105: get_pods_to_intercept
Resolve ==
    /\ pc = "resolve"
    /\ \E pods \in LookupResults(request.workload_type) : pods_to_intercept' = pods
    /\ pc' = "validate"
    /\ UNCHANGED << container, use_index, sync_down_dirs, error, result >>
    /\ Frame1

\* lines 107-124: check_workloads, then the sync-down list
Validate ==
    /\ pc = "validate"
    /\ LET chk == check_workloads(pods_to_intercept, request.workload_type,
                                  request.workload_name, request.container_name)
       IN IF chk.error.kind # "none"
          THEN /\ pc' = "raised"
               /\ error' = chk.error
               /\ UNCHANGED << use_index, sync_down_dirs >>
          ELSE /\ pc' = "create"
               /\ use_index' = chk.use_index
               /\ sync_down_dirs' = SyncDownDirs(request.sync_down_dirs)
               /\ error' = error
    /\ UNCHANGED << container, pods_to_intercept, result >>
    /\ Frame1

\* ------------------------------------------------------------ bridge(), part 2
\* the identifier the intent store assigns to a new intent
NextUid(st) == Len(st) + 1

\* lines 134-158: one turn of the creation loop, the create call succeeding
Create ==
    /\ pc = "create"
    /\ idx < Len(pods_to_intercept)
    /\ LET pod == pods_to_intercept[idx + 1].pod
           ireq == IreqBody(NextUid(store), request, idx, pod, use_index, sync_down_dirs)
       IN /\ store' = Append(store, ireq)
          /\ ireqs' = Append(ireqs, ireq)
          /\ jobs' = jobs \o SyncdownJobs(ireq, pod, request.container_name, sync_down_dirs)
    /\ idx' = idx + 1
    /\ create_calls' = create_calls + 1
    /\ UNCHANGED TeardownVars
    /\ UNCHANGED << request, pc, container, pods_to_intercept, use_index, sync_down_dirs,
                    bridges, waiting_time, kube_ireqs, progress, fetches, sleeps,
                    observed, result, error, summary >>

\* a variant of CreateFails that removes the intents created so far before
\* the error leaves bridge()
CreateFailsCleanup ==
    /\ pc = "create"
    /\ idx < Len(pods_to_intercept)
    /\ pc' = "raised"
    /\ error' = [kind |-> "SubmissionError", available |-> <<>>]
    /\ create_calls' = create_calls + 1
    /\ store' = SubSeq(store, 1, Len(store) - Len(ireqs))
    /\ delete_calls' = delete_calls
          \o [i \in 1..Len(ireqs) |-> [name |-> ireqs[i].name, outcome |-> "true"]]
    /\ UNCHANGED << op, unbridge_name, listed, list_calls >>
    /\ UNCHANGED << request, container, pods_to_intercept, use_index, sync_down_dirs,
                    idx, ireqs, jobs, bridges, waiting_time, kube_ireqs, progress,
                    fetches, sleeps, observed, result, summary >>

\* line 147: the create call raises; nothing catches it
CreateFails ==
    /\ pc = "create"
    /\ idx < Len(pods_to_intercept)
    /\ pc' = "raised"
    /\ error' = [kind |-> "SubmissionError", available |-> <<>>]
    /\ create_calls' = create_calls + 1
    /\ UNCHANGED TeardownVars
    /\ UNCHANGED << request, container, pods_to_intercept, use_index, sync_down_dirs,
                    idx, store, ireqs, jobs, bridges, waiting_time, kube_ireqs, progress,
                    fetches, sleeps, observed, result, summary >>

\* a variant of InitialBridges that misses the first created intent
InitialBridgesTail(created) == [u \in {created[i].uid : i \in 2..Len(created)} |-> FALSE]

\* line 164
InitialBridges(created) == [u \in {created[i].uid : i \in 1..Len(created)} |-> FALSE]

\* lines 165-168
InitialWaitingTime(timeout) == IF timeout # 0 THEN timeout ELSE 0

\* lines 164-168: the loop is over, the tracked set is built
StartPolling ==
    /\ pc = "create"
    /\ idx = Len(pods_to_intercept)
    /\ bridges' = InitialBridges(ireqs)
    /\ waiting_time' = InitialWaitingTime(request.timeout)
    /\ pc' = "fetch"
    /\ UNCHANGED TeardownVars
    /\ UNCHANGED << request, container, pods_to_intercept, use_index, sync_down_dirs,
                    idx, store, create_calls, ireqs, jobs, kube_ireqs, progress, fetches, sleeps,
                    observed, result, error, summary >>

\* ------------------------------------------------------------ the poll loop
Reports == {"omit", "true", "false", "absent"}

\* what get_all_interceptrequests returns for an intent of the store
KubeIreq(intent, est) ==
    [ uid |-> intent.uid, name |-> intent.name, targetPod |-> intent.targetPod,
      targetNamespace |-> intent.targetNamespace, established |-> est ]

\* a fetch: the intents of the store, some omitted, each with its established field
RECURSIVE FetchList(_, _, _)
FetchList(st, sel, i) ==
    IF i > Len(st) THEN <<>>
    ELSE (IF sel[i] = "omit" THEN <<>> ELSE <<KubeIreq(st[i], sel[i])>>)
         \o FetchList(st, sel, i + 1)

\* kube_ireq.get("established", False)
Established(ki) == ki.established = "true"

\* a variant of Marks that does not look at the established field
MarksAnyTracked(b, ki) == ki.uid \in DOMAIN b

\* lines 173-175: the condition under which an entry marks its bridge
Marks(b, ki) == ki.uid \in DOMAIN b /\ Established(ki)

\* a variant of Mark that stores the last reported value
MarkLatest(b, ki) ==
    IF ki.uid \in DOMAIN b THEN [b EXCEPT ![ki.uid] = Established(ki)] ELSE b

\* line 176
Mark(b, ki) == IF Marks(b, ki) THEN [b EXCEPT ![ki.uid] = TRUE] ELSE b

\* sum(bridges.values())
Sum(b) == Cardinality({u \in DOMAIN b : b[u]})

\* all(bridges.values())
All(b) == \A u \in DOMAIN b : b[u]

\* lines 177-179: the progress line, logged after the entry is marked
Signal(b, ki, total) == [uid |-> ki.uid, name |-> ki.name, count |-> Sum(b), total |-> total]

\* lines 172-179: the for loop over the fetched entries
RECURSIVE MarkAll(_, _, _)
MarkAll(b, list, total) ==
    IF list = <<>> THEN [bridges |-> b, signals |-> <<>>]
    ELSE LET marked == Mark(b, Head(list))
             rest == MarkAll(marked, Tail(list), total)
         IN [ bridges |-> rest.bridges,
              signals |-> (IF Marks(b, Head(list))
                           THEN <<Signal(marked, Head(list), total)>>
                           ELSE <<>>) \o rest.signals ]

\* a variant of AfterFetch that looks at the remaining budget first
AfterFetchBudgetFirst(b, timeout, waiting) ==
    IF timeout # 0 /\ waiting - 1 <= 0 THEN "sleep"
    ELSE IF All(b) THEN "report" ELSE "sleep"

\* lines 180-186: where the loop goes after the for loop
AfterFetch(b, timeout, waiting) == IF All(b) THEN "report" ELSE "sleep"

\* a variant of TimedOut that compares with < instead of <=
TimedOutLate(timeout, waiting) == timeout # 0 /\ waiting < 0

\* a variant of TimedOut without the "timeout and" guard
TimedOutUnguarded(timeout, waiting) == waiting <= 0

\* line 185
TimedOut(timeout, waiting) == timeout # 0 /\ waiting <= 0

\* lines 171-181: fetch, mark, check
Fetch ==
    /\ pc = "fetch"
    /\ request.timeout = 0 => fetches < MaxTicks
    /\ \E sel \in [1..Len(store) -> Reports] :
          LET list == FetchList(store, sel, 1)
              res == MarkAll(bridges, list, Len(ireqs))
          IN /\ kube_ireqs' = list
             /\ bridges' = res.bridges
             /\ progress' = res.signals
             /\ observed' = observed \cup {list[i].uid : i \in {j \in 1..Len(list) :
                                                               Established(list[j])}}
             /\ pc' = AfterFetch(res.bridges, request.timeout, waiting_time)
    /\ fetches' = fetches + 1
    /\ UNCHANGED TeardownVars
    /\ UNCHANGED << request, container, pods_to_intercept, use_index, sync_down_dirs,
                    idx, store, create_calls, ireqs, jobs, waiting_time, sleeps, result, error, summary >>

\* a variant of Sleep that removes the created intents when the timeout is reached
SleepCleanup ==
    /\ pc = "sleep"
    /\ sleeps' = sleeps + 1
    /\ waiting_time' = waiting_time - 1
    /\ IF TimedOut(request.timeout, waiting_time - 1)
       THEN /\ pc' = "raised"
            /\ error' = [kind |-> "TimeoutExceeded", available |-> <<>>]
            /\ store' = SubSeq(store, 1, Len(store) - Len(ireqs))
            /\ delete_calls' = delete_calls
                  \o [i \in 1..Len(ireqs) |-> [name |-> ireqs[i].name, outcome |-> "true"]]
            /\ UNCHANGED << kube_ireqs, progress >>
       ELSE /\ pc' = "fetch"
            /\ error' = error
            /\ kube_ireqs' = <<>>
            /\ progress' = <<>>
            /\ UNCHANGED << store, delete_calls >>
    /\ UNCHANGED << op, unbridge_name, listed, list_calls >>
    /\ UNCHANGED << request, container, pods_to_intercept, use_index, sync_down_dirs,
                    idx, create_calls, ireqs, jobs, bridges, fetches,
                    observed, result, summary >>

\* lines 182-186: sleep, count down, raise on timeout
Sleep ==
    /\ pc = "sleep"
    /\ sleeps' = sleeps + 1
    /\ waiting_time' = waiting_time - 1
    /\ IF TimedOut(request.timeout, waiting_time - 1)
       THEN /\ pc' = "raised"
            /\ error' = [kind |-> "TimeoutExceeded", available |-> <<>>]
            /\ UNCHANGED << kube_ireqs, progress >>
       ELSE \* back to line 171, which overwrites kube_ireqs before anything reads
            \* it: the list of the finished turn is forgotten here
            /\ pc' = "fetch"
            /\ error' = error
            /\ kube_ireqs' = <<>>
            /\ progress' = <<>>
    /\ UNCHANGED TeardownVars
    /\ UNCHANGED << request, container, pods_to_intercept, use_index, sync_down_dirs,
                    idx, store, create_calls, ireqs, jobs, bridges, fetches,
                    observed, result, summary >>

\* lines 190-199: one summary line
SummaryLine(ki, port, cname) ==
    [ pod |-> ki.targetPod, ns |-> ki.targetNamespace,
      pod_port |-> Split(port, ":")[2],
      container |-> cname,
      container_port |-> Split(port, ":")[1] ]

\* lines 188-199: for ki in kube_ireqs: for port in ports
RECURSIVE SummaryLines(_, _, _)
SummaryLines(list, prts, cname) ==
    IF list = <<>> THEN <<>>
    ELSE [i \in 1..Len(prts) |-> SummaryLine(Head(list), prts[i], cname)]
         \o SummaryLines(Tail(list), prts, cname)

\* lines 187-200: the summary, return True
Report ==
    /\ pc = "report"
    /\ summary' = SummaryLines(kube_ireqs, ports, request.container_name)
    /\ result' = "True"
    /\ pc' = "returned"
    /\ UNCHANGED TeardownVars
    /\ UNCHANGED << request, container, pods_to_intercept, use_index, sync_down_dirs,
                    idx, store, create_calls, ireqs, jobs, bridges, waiting_time, kube_ireqs, progress,
                    fetches, sleeps, observed, error >>

Next ==
    \/ GetContainer
    \/ GetIp
    \/ Resolve
    \/ Validate
    \/ Create
    \/ CreateFails
    \/ StartPolling
    \/ Fetch
    \/ Sleep
    \/ Report

Spec == Init /\ [][Next]_vars

\* ------------------------------------------------- unbridge(), unbridge_all()
\* a request whose intents a teardown may find in the store
StoredRequest ==
    [ workload_type |-> S_deployment, workload_name |-> S_api, container_name |-> "api",
      sync_down_dirs |-> None, timeout |-> 0 ]

\* the intents a teardown may find: the foreign one and intents of StoredRequest
StoredIntents ==
    {ForeignIntent}
    \cup { IreqBody(k + 1, StoredRequest, k - 1, PodName(k), TRUE, <<ServiceAccountDir>>)
           : k \in 1..(MaxStored - 1) }

\* the contents of the intent store when a teardown is called
Stores == {q \in DistinctSeqs(StoredIntents, MaxStored) : NoDup(q)}

\* the names unbridge() may be called with: those of the intents, and one more
UnbridgeNames == {x.name : x \in StoredIntents} \cup {S_api}

StoredNames(st) == {st[i].name : i \in 1..Len(st)}

\* what handle_delete_interceptrequest can do: acknowledge (only an intent that
\* exists), report failure, or raise
DeleteOutcomes(st, nm) ==
    IF nm \in StoredNames(st) THEN {"true", "false", "raised"} ELSE {"false", "raised"}

\* the store after the deletion of the intent named nm was acknowledged
DeleteFromStore(st, nm) == SelectSeq(st, LAMBDA x : x.name # nm)

StoreAfter(st, nm, outcome) == IF outcome = "true" THEN DeleteFromStore(st, nm) ELSE st

DeleteCall(nm, outcome) == [name |-> nm, outcome |-> outcome]

InitTeardown ==
    /\ op \in {"unbridge", "unbridge_all"}
    /\ pc = op
    /\ store \in Stores
    /\ unbridge_name \in (IF op = "unbridge" THEN UnbridgeNames ELSE {<<>>})
    /\ request = StoredRequest
    /\ container = "unknown"
    /\ pods_to_intercept = <<>>
    /\ use_index = FALSE
    /\ sync_down_dirs = <<>>
    /\ idx = 0
    /\ create_calls = 0
    /\ ireqs = <<>>
    /\ jobs = <<>>
    /\ bridges = <<>>
    /\ waiting_time = 0
    /\ kube_ireqs = <<>>
    /\ progress = <<>>
    /\ fetches = 0
    /\ sleeps = 0
    /\ observed = {}
    /\ result = "none"
    /\ error = NoError
    /\ summary = <<>>
    /\ listed = <<>>
    /\ list_calls = 0
    /\ delete_calls = <<>>

\* what bridge() alone touches
BridgeVars == << request, container, pods_to_intercept, use_index, sync_down_dirs,
                create_calls, ireqs, jobs, bridges, waiting_time, kube_ireqs, progress,
                fetches, sleeps, observed, summary >>

\* a variant of UnbridgeResult that returns the acknowledgment
UnbridgeResultAck(success) == IF success THEN "True" ELSE "False"

\* lines 216-218: the value unbridge() returns, given the acknowledgment
UnbridgeResult(success) == "True"

\* lines 213-218: unbridge(name)
Unbridge ==
    /\ pc = "unbridge"
    /\ \E outcome \in DeleteOutcomes(store, unbridge_name) :
          /\ delete_calls' = Append(delete_calls, DeleteCall(unbridge_name, outcome))
          /\ store' = StoreAfter(store, unbridge_name, outcome)
          /\ IF outcome = "raised"
             THEN /\ pc' = "raised"
                  /\ error' = [kind |-> "DeleteError", available |-> <<>>]
                  /\ result' = result
             ELSE /\ pc' = "returned"
                  /\ result' = UnbridgeResult(outcome = "true")
                  /\ error' = error
    /\ UNCHANGED << op, unbridge_name, listed, list_calls, idx >>
    /\ UNCHANGED BridgeVars

\* lines 233-235: unbridge_all() lists the intents
ListAll ==
    /\ pc = "unbridge_all"
    /\ listed' = store
    /\ list_calls' = list_calls + 1
    /\ idx' = 0
    /\ pc' = "delete_loop"
    /\ UNCHANGED << op, unbridge_name, delete_calls, store, result, error >>
    /\ UNCHANGED BridgeVars

\* lines 236-239: one turn of the loop, the delete call returning
DeleteListed ==
    /\ pc = "delete_loop"
    /\ idx < Len(listed)
    /\ LET nm == listed[idx + 1].name
       IN \E outcome \in DeleteOutcomes(store, nm) \ {"raised"} :
             /\ delete_calls' = Append(delete_calls, DeleteCall(nm, outcome))
             /\ store' = StoreAfter(store, nm, outcome)
    /\ idx' = idx + 1
    /\ UNCHANGED << op, unbridge_name, listed, list_calls, pc, result, error >>
    /\ UNCHANGED BridgeVars

\* line 239: the delete call raises; nothing catches it
DeleteListedRaises ==
    /\ pc = "delete_loop"
    /\ idx < Len(listed)
    /\ delete_calls' = Append(delete_calls, DeleteCall(listed[idx + 1].name, "raised"))
    /\ pc' = "raised"
    /\ error' = [kind |-> "DeleteError", available |-> <<>>]
    /\ UNCHANGED << op, unbridge_name, listed, list_calls, idx, store, result >>
    /\ UNCHANGED BridgeVars

\* line 240: the loop is over, return True
ReturnAll ==
    /\ pc = "delete_loop"
    /\ idx = Len(listed)
    /\ result' = "True"
    /\ pc' = "returned"
    /\ UNCHANGED << op, unbridge_name, listed, list_calls, idx, store, delete_calls, error >>
    /\ UNCHANGED BridgeVars

NextTeardown ==
    \/ Unbridge
    \/ ListAll
    \/ DeleteListed
    \/ DeleteListedRaises
    \/ ReturnAll

SpecTeardown == InitTeardown /\ [][NextTeardown]_vars

\* bridge() runs to its end: a sequential program takes its next step.
\* The calls are those without sync-down directories, which the loop never reads.
InitLive == Init /\ request.sync_down_dirs = None

SpecLive == InitLive /\ [][Next]_vars /\ WF_vars(Next)

\* =================================================================== claims
TrackedUids == {ireqs[i].uid : i \in 1..Len(ireqs)}

\* the poll loop was left by the break of line 181
Converged == pc = "report" \/ (pc = "returned" /\ result = "True")

TimedOutState == pc = "raised" /\ error.kind = "TimeoutExceeded"

\* the loop is running
Waiting == pc \in {"fetch", "sleep"}

\* the entry of the last fetch for uid u, if any
ReportedAs(u, est) == \E i \in 1..Len(kube_ireqs) :
                         kube_ireqs[i].uid = u /\ kube_ireqs[i].established = est

\* C1: bridge() leaves the poll loop with success only when every tracked
\* identifier (one per intent this call created) has been reported by some fetch
\* with established = true; the tracked set is exactly the created intents, so
\* an established foreign intent cannot stand in for a tracked one.
C1_ConvergedOnlyIfAllObserved ==
    Converged =>
        /\ DOMAIN bridges = TrackedUids
        /\ Cardinality(TrackedUids) = Len(ireqs)
        /\ Len(ireqs) = Len(pods_to_intercept)
        /\ \A u \in TrackedUids : u \in observed

\* C1 witness: convergence of two intents, a foreign intent having been
\* reported established as well
C1_Witness ==
    /\ pc = "report"
    /\ Len(ireqs) = 2
    /\ fetches >= 2
    /\ ForeignIntent.uid \in observed

\* C2: a converged entry stays converged in every later step, and a fetch never
\* ends in an error: it leads to the sleep or to the summary.
C2_ConvergedMapMonotonic ==
    [][ /\ \A u \in DOMAIN bridges : bridges[u] => (u \in DOMAIN bridges' /\ bridges'[u])
        /\ pc = "fetch" => (pc' \in {"sleep", "report"} /\ error' = error) ]_vars

\* C2 witness: after a fetch, a tracked intent is converged although this
\* fetch reports it with established = false
C2_Witness ==
    /\ pc \in {"sleep", "report"}
    /\ \E u \in DOMAIN bridges : bridges[u] /\ ReportedAs(u, "false")

\* C3: with timeout T > 0 the timeout error is raised after exactly T fetches
\* and T sleeps (so after at least one full cycle), and the loop never runs a
\* fetch beyond the T-th.
C3_TimeoutAfterExactlyT ==
    request.timeout > 0 =>
        /\ fetches <= request.timeout
        /\ TimedOutState => /\ fetches = request.timeout
                            /\ sleeps = request.timeout
                            /\ sleeps >= 1

\* C3 witness: a timeout with the largest budget, no intent ever converged
C3_Witness ==
    /\ TimedOutState
    /\ request.timeout = MaxTimeout
    /\ \A u \in DOMAIN bridges : ~bridges[u]

\* C4: with timeout = 0 no timeout error is ever raised; while some tracked
\* intent is not converged the loop is still waiting.
C4_NoTimeoutWhenZero ==
    request.timeout = 0 =>
        /\ ~TimedOutState
        /\ (fetches > 0 /\ ~All(bridges)) => Waiting

\* C4 witness: timeout 0, MaxTicks full cycles done, still waiting
C4_Witness ==
    /\ request.timeout = 0
    /\ sleeps = MaxTicks
    /\ pc = "fetch"
    /\ ~All(bridges)

\* C5: once all tracked entries are converged the loop has ended in CONVERGED
\* with no sleep after the last fetch; a timeout is never raised with all
\* entries converged, also when the last intent converges at the T-th fetch.
C5_ConvergedAtFirstFullTick ==
    /\ TimedOutState => ~All(bridges)
    /\ (fetches > 0 /\ All(bridges)) => (Converged /\ sleeps = fetches - 1)
    /\ Converged => All(bridges)

\* C5 witness: the last intent converges at the fetch at which the budget
\* would run out
C5_Witness ==
    /\ pc = "report"
    /\ request.timeout = MaxTimeout
    /\ fetches = request.timeout
    /\ Len(progress) = 1
    /\ Len(ireqs) = 2

\* the uids of a sequence of progress signals
SignalUids(sig) == {sig[i].uid : i \in 1..Len(sig)}

\* C6: in a fetch there is exactly one progress signal per tracked intent that
\* goes from not converged to converged in it, and none for an intent that was
\* converged before; the i-th signal carries the number of converged entries at
\* that moment over the number of tracked intents.
C6_OneSignalPerTransition ==
    [][ pc = "fetch" =>
          LET newly == {u \in DOMAIN bridges : ~bridges[u] /\ bridges'[u]}
          IN /\ SignalUids(progress') = newly
             /\ Len(progress') = Cardinality(newly)
             /\ \A i \in 1..Len(progress') :
                   /\ progress'[i].count = Sum(bridges) + i
                   /\ progress'[i].total = Len(ireqs) ]_vars

\* the names the claims expect
ExpectedBase ==
    S_web \o S_to \o S_default \o S_dot \o request.workload_type \o S_dot
          \o request.workload_name

\* the creation loop is over
AllCreated == pc \in {"fetch", "sleep", "report"} \/ Converged \/ TimedOutState

\* C7: with n > 1 resolved pods the i-th intent (from 0) is named <base>-<i>,
\* so the names are pairwise distinct; with n = 1 the intent is named <base>.
C7_IndexedNames ==
    LET n == Len(pods_to_intercept)
    IN /\ \A i \in 1..Len(ireqs) :
             /\ n > 1 => ireqs[i].name = ExpectedBase \o <<"-">> \o ToStr(i - 1)
             /\ n = 1 => ireqs[i].name = ExpectedBase
             /\ ireqs[i].targetPod = pods_to_intercept[i].pod
       /\ \A i, j \in 1..Len(ireqs) : i # j => ireqs[i].name # ireqs[j].name
       /\ AllCreated => Len(ireqs) = n

\* C7 witness: all intents of a request with more than one pod are created
C7_Witness ==
    /\ pc = "fetch"
    /\ Len(ireqs) = MaxPods
    /\ Len(ireqs) > 1

\* C8: every intent submitted has the sync-down list made of the
\* service-account path followed by the elements of D in order (nothing more
\* when D is absent or empty), and so has the intent kept by the store.
C8_SyncDownDirs ==
    \A i \in 1..Len(ireqs) :
        /\ ireqs[i].syncDownDirectories
             = <<"/var/run/secrets/kubernetes.io/serviceaccount">> \o request.sync_down_dirs.dirs
        /\ \E k \in 1..Len(store) : store[k] = ireqs[i]

\* C8 witness: two intents created for a request with two directories
C8_Witness ==
    /\ Len(ireqs) >= 2
    /\ Len(request.sync_down_dirs.dirs) = 2

\* the positions of the dashes of a name
DashPositions(key) == {i \in 1..Len(key) : key[i] = "-"}

\* a pod name without its trailing two dash-delimited segments: what precedes
\* the last but one dash, nothing when there are fewer than two dashes
StripTwo(key) ==
    LET dp == DashPositions(key)
    IN IF Cardinality(dp) < 2 THEN <<>>
       ELSE LET last == CHOOSE i \in dp : \A j \in dp : j <= i
                cut == CHOOSE i \in dp \ {last} : \A j \in dp \ {last} : j <= i
            IN SubSeq(key, 1, cut - 1)

StrippedNames == [i \in 1..Len(pods_to_intercept) |-> StripTwo(pods_to_intercept[i].pod)]

\* check_workloads has run on the resolved pods
Validated == pc \in {"create", "fetch", "sleep", "report", "raised"} \/ Converged

\* C9 as claimed: whenever the workload name is not among the cleaned names of
\* the resolved pods, validation rejects it with an error listing those names.
C9_RejectsAnyUnknownWorkload ==
    (Validated /\ Len(pods_to_intercept) > 0
       /\ request.workload_name \notin Range(StrippedNames))
    => /\ pc = "raised"
       /\ error.kind = "WorkloadNotFound"
       /\ error.available = Join(StrippedNames, <<",", " ">>)

\* C9 amended: for a workload type other than pod and at least one resolved
\* pod, a workload name that is not among the cleaned names is rejected with an
\* error listing exactly the cleaned names in resolution order, and that error
\* is raised in no other case; for the type pod the name is not checked.
C9_RejectsUnknownWorkloadUnlessPod ==
    /\ (Validated /\ Len(pods_to_intercept) > 0 /\ request.workload_type # S_pod
          /\ request.workload_name \notin Range(StrippedNames))
       => /\ pc = "raised"
          /\ error.kind = "WorkloadNotFound"
          /\ error.available = Join(StrippedNames, <<",", " ">>)
          /\ create_calls = 0
    /\ error.kind = "WorkloadNotFound"
       => /\ request.workload_type # S_pod
          /\ Len(pods_to_intercept) > 0
          /\ request.workload_name \notin Range(StrippedNames)

\* C9 witness: a deployment name that is not a cleaned name of the two resolved
\* pods is rejected
C9_Witness ==
    /\ pc = "raised"
    /\ error.kind = "WorkloadNotFound"
    /\ Len(pods_to_intercept) = 2

PreSubmissionFailure ==
    \/ pc = "returned" /\ result = "False"
    \/ pc = "raised" /\ error.kind \in {"NoPodsFound", "WorkloadNotFound",
                                         "ContainerTargetNotFound"}

\* C10: a create call is issued only after every check has passed: the local
\* container is attached to the network, pods were resolved, the workload name
\* (unless the type is pod) and the container are found; when bridge() ends on
\* a failed check, no create call was issued and the store is as it was.
C10_NoCreateBeforeChecks ==
    /\ PreSubmissionFailure => (create_calls = 0 /\ ireqs = <<>> /\ store = <<ForeignIntent>>)
    /\ (create_calls > 0 \/ Len(store) > 1) =>
          /\ container = "attached"
          /\ Len(pods_to_intercept) > 0
          /\ (request.workload_type # S_pod
                => request.workload_name \in Range(StrippedNames))
          /\ \E i \in 1..Len(pods_to_intercept) :
                request.container_name \in Range(pods_to_intercept[i].containers)
    /\ container = "absent" => (pc = "returned" /\ result = "False")
    /\ (container = "unattached" /\ pc # "get_ip") => (pc = "returned" /\ result = "False")

\* C10 witness: validation fails on the target container, nothing created
C10_Witness ==
    /\ pc = "raised"
    /\ error.kind = "ContainerTargetNotFound"
    /\ create_calls = 0

\* ------------------------------------------------- claims on bridge(), part 2
SubmissionFailed == pc = "raised" /\ error.kind = "SubmissionError"

\* C14: when a create call fails, bridge() ends at once with that error: the
\* failed call is the last create call, polling has not started, nothing was
\* deleted, and the store holds what it held plus the intents created before.
C14_CreateFailurePropagates ==
    /\ SubmissionFailed =>
          /\ create_calls = Len(ireqs) + 1
          /\ idx = Len(ireqs)
          /\ Len(ireqs) < Len(pods_to_intercept)
          /\ fetches = 0 /\ sleeps = 0 /\ bridges = <<>>
          /\ result = "none"
          /\ delete_calls = <<>>
          /\ store = <<ForeignIntent>> \o ireqs
    /\ error.kind = "SubmissionError" => pc = "raised"
    /\ create_calls > Len(ireqs) => SubmissionFailed

\* C14 witness: the create call for the second of two pods fails
C14_Witness ==
    /\ SubmissionFailed
    /\ Len(ireqs) = 1
    /\ Len(pods_to_intercept) = 2

\* C15: bridge() never issues a delete; when it ends in TIMED_OUT the store
\* holds every intent this call created, unchanged.
C15_TimeoutLeavesIntents ==
    /\ delete_calls = <<>>
    /\ TimedOutState =>
          /\ Len(ireqs) = Len(pods_to_intercept)
          /\ store = <<ForeignIntent>> \o ireqs

\* C15 witness: a timeout after two intents were created
C15_Witness ==
    /\ TimedOutState
    /\ Len(ireqs) = 2

\* C16: when all creates succeeded, there is exactly one intent per resolved
\* pod, in resolution order, the target pods pairwise distinct; the tracked set
\* has as many entries as pods were resolved, all false before the first fetch.
C16_OneIntentPerPod ==
    AllCreated =>
        /\ Len(ireqs) = Len(pods_to_intercept)
        /\ create_calls = Len(pods_to_intercept)
        /\ \A i \in 1..Len(ireqs) : ireqs[i].targetPod = pods_to_intercept[i].pod
        /\ \A i, j \in 1..Len(ireqs) : i # j => ireqs[i].targetPod # ireqs[j].targetPod
        /\ Cardinality(DOMAIN bridges) = Len(pods_to_intercept)
        /\ DOMAIN bridges = {ireqs[i].uid : i \in 1..Len(ireqs)}
        /\ fetches = 0 => \A u \in DOMAIN bridges : bridges[u] = FALSE

\* C16 witness: the tracked set of two pods right before the first fetch
C16_Witness ==
    /\ pc = "fetch"
    /\ fetches = 0
    /\ Len(pods_to_intercept) = 2
    /\ Cardinality(DOMAIN bridges) = 2

\* the summary lines the claim expects: one per created intent and port mapping
ExpectedSummary ==
    { [ pod |-> ireqs[i].targetPod, ns |-> S_default,
        pod_port |-> <<"8", "0">>, container |-> request.container_name,
        container_port |-> <<"8", "0", "8", "0">> ] : i \in 1..Len(ireqs) }

\* C17: after CONVERGED the summary has one line per tracked intent and port
\* mapping and no line for an intent this call did not create.
C17_SummaryOnlyTracked ==
    (pc = "returned" /\ result = "True") =>
        /\ Range(summary) = ExpectedSummary
        /\ Len(summary) = Len(ireqs) * Len(ports)

\* C19 as claimed: the container each intent targets is one of the containers
\* of the pod it targets.
C19_ContainerInOwnPod ==
    \A i \in 1..Len(ireqs) :
        \E j \in 1..Len(pods_to_intercept) :
            /\ pods_to_intercept[j].pod = ireqs[i].targetPod
            /\ ireqs[i].targetContainer \in Range(pods_to_intercept[j].containers)

\* C19 amended: the container each intent targets is the requested one, and it
\* is one of the containers of some resolved pod, which need not be the pod the
\* intent targets.
C19_ContainerInSomePod ==
    \A i \in 1..Len(ireqs) :
        /\ ireqs[i].targetContainer = request.container_name
        /\ ireqs[i].targetPod = pods_to_intercept[i].pod
        /\ \E j \in 1..Len(pods_to_intercept) :
              ireqs[i].targetContainer \in Range(pods_to_intercept[j].containers)

\* C19 witness: two intents, the second for a pod that lacks the container
C19_Witness ==
    /\ Len(ireqs) = 2
    /\ ireqs[2].targetContainer \notin Range(pods_to_intercept[2].containers)

\* ------------------------------------------------------ claims on teardown
Ended == pc \in {"returned", "raised"}

\* the names of a sequence of intents or of delete calls, in order
Names(q) == [i \in 1..Len(q) |-> q[i].name]

\* C11: in unbridge_all, after a delete call that failed (negative
\* acknowledgment or error), a delete is still attempted for every intent that
\* comes later in the list.
C11_DeletesGoOnAfterFailure ==
    (op = "unbridge_all" /\ Ended) =>
        \A k \in 1..Len(delete_calls) :
            delete_calls[k].outcome \in {"false", "raised"} =>
                \A i \in (k + 1)..Len(listed) :
                    /\ i <= Len(delete_calls)
                    /\ delete_calls[i].name = listed[i].name

\* C12: unbridge_all lists the intents once, issues exactly one delete per
\* listed intent in listing order, and returns True.
C12_OneDeletePerListed ==
    (op = "unbridge_all" /\ Ended) =>
        /\ list_calls = 1
        /\ Names(delete_calls) = Names(listed)
        /\ pc = "returned"
        /\ result = "True"

\* C13: unbridge(name) issues exactly one delete call, for name, and no list
\* call; when that call returns, with a positive or a negative acknowledgment,
\* unbridge returns True.
C13_UnbridgeOneDelete ==
    (op = "unbridge" /\ Ended) =>
        /\ list_calls = 0
        /\ Len(delete_calls) = 1
        /\ delete_calls[1].name = unbridge_name
        /\ delete_calls[1].outcome # "raised" => (pc = "returned" /\ result = "True")
        /\ delete_calls[1].outcome = "raised" => (pc = "raised" /\ result = "none")

\* C13 witness: unbridge of a name that no intent has, negative acknowledgment
C13_Witness ==
    /\ op = "unbridge"
    /\ pc = "returned"
    /\ unbridge_name \notin StoredNames(store)
    /\ Len(store) = MaxStored
    /\ delete_calls[1].outcome = "false"

\* ------------------------------------------------------ liveness of the loop
\* C18: with timeout 0, once every tracked intent has been reported established
\* by some fetch, bridge() returns True; with timeout T > 0 the loop runs at
\* most T fetches and bridge() ends, converged or timed out.
C18_PollLoopEnds ==
    /\ [](request.timeout > 0 => fetches <= request.timeout)
    /\ (request.timeout = 0 /\ fetches > 0 /\ TrackedUids \subseteq observed)
          ~> (pc = "returned" /\ result = "True")
    /\ (request.timeout > 0 /\ pc = "fetch")
          ~> ((pc = "returned" /\ result = "True") \/ TimedOutState)

\* C18 witness: timeout 0, two intents reported established by different
\* fetches, the first no longer reported established by the last fetch
C18_Witness ==
    /\ request.timeout = 0
    /\ pc = "returned" /\ result = "True"
    /\ Len(ireqs) = 2
    /\ fetches >= 2
    /\ \E u \in TrackedUids : ~ReportedAs(u, "true")

====
